---- MODULE Spec2Model ----
(***************************************************************************)
(* A model of rsa.py: the extended Euclidean algorithm (ex_gcd), trial      *)
(* division (dual_factor), the windowed sieve (gen_prime), square-and-      *)
(* multiply (pow), key generation (gen_keys), encrypt / decrypt and the     *)
(* factoring attack (crack).  Python exceptions are modelled as outcome     *)
(* records whose field kind names the exception.                            *)
(***************************************************************************)
EXTENDS Integers, Sequences, FiniteSets

VARIABLES
    ga, gb, gres,                       \* ex_gcd: the arguments and the outcome
    pa, pb, pN, pres,                   \* pow: the arguments and the outcome
    low, high, gp_pc, gp_ret,           \* gen_prime: arguments a, b, position, returned value
    gp_start, gp_end, draws,            \* gen_prime: last window sieved, number of midpoints drawn
    max_digits, kpc, p, q, e, key,      \* gen_keys: argument, position, locals p q e, returned triple
    dpc, m, c, m2, cracked,             \* driver: position, message, ciphertext, decrypted message, crack's outcome
    cN, ce, cres                        \* crack: the arguments and the outcome

gcdVars    == <<ga, gb, gres>>
powVars    == <<pa, pb, pN, pres>>
primeVars  == <<low, high, gp_pc, gp_ret, gp_start, gp_end, draws>>
keyVars    == <<max_digits, kpc, p, q, e, key>>
cipherVars == <<dpc, m, c, m2, cracked>>
crackVars  == <<cN, ce, cres>>
vars == <<gcdVars, powVars, primeVars, keyVars, cipherVars, crackVars>>

-----------------------------------------------------------------------------
(* Bounds of the model. *)

MaxGcdArg == 14     \* ex_gcd is applied to a, b in 1..MaxGcdArg
MaxBase   == 5      \* pow: base in 0..MaxBase
MaxExp    == 6      \* pow: exponent in 0..MaxExp
MaxMod    == 7      \* pow: modulus in 1..MaxMod
MaxLow    == 12     \* gen_prime: a in 0..MaxLow
MaxHigh   == 108    \* gen_prime: b in 0..MaxHigh
MaxDraws  == 2      \* the count of drawn midpoints saturates here
MaxDigits == 4      \* gen_keys: max_digits in 0..MaxDigits
MaxMsg    == 3      \* encrypt is also applied to the messages 0..MaxMsg
MaxN      == 40     \* crack: N in 2..MaxN
MaxE      == 9      \* crack: e in 1..MaxE

(* Program constants. *)

WindowRadius == 50  \* gen_prime: midpoint - 50, midpoint + 50
DriverMessage == 12345  \* driver: m = 12345

-----------------------------------------------------------------------------
(* Arithmetic helpers. *)

Max(x, y) == IF x > y THEN x ELSE y
Min(x, y) == IF x < y THEN x ELSE y

RECURSIVE Power(_, _)
Power(x, n) == IF n = 0 THEN 1 ELSE x * Power(x, n - 1)

RECURSIVE Gcd(_, _)
Gcd(x, y) == IF y = 0 THEN x ELSE Gcd(y, x % y)

IsPrime(n) == n >= 2 /\ \A k \in 2..(n - 1) : n % k # 0

\* floor(sqrt(n)): what int(n**0.5 + 1) - 1 and int(n**(1/2) + 1) - 1 evaluate to.
ISqrt(n) == CHOOSE r \in 0..n : r * r <= n /\ (r + 1) * (r + 1) > n

-----------------------------------------------------------------------------
(* ex_gcd(a, b, show_steps) *)

NoGcd == [kind |-> "none", g |-> 0, inv |-> 0]

\* while vals[-1] != 0: vals.append(vals[-2] % vals[-1])
RECURSIVE Remainders(_)
Remainders(vals) ==
    IF vals[Len(vals)] = 0 THEN vals
    ELSE Remainders(Append(vals, vals[Len(vals) - 1] % vals[Len(vals)]))

\* for i in range(len(vals)-2, 1, -1): the back substitution on (s, t).
\* vals is 1-based here: Python's vals[i-2], vals[i-1] are vals[i-1], vals[i].
RECURSIVE BackSubstitute(_, _, _, _)
BackSubstitute(vals, i, s, t) ==
    IF i <= 1 THEN <<s, t>>
    ELSE LET nt == -(vals[i - 1] \div vals[i])
         IN  BackSubstitute(vals, i - 1, t, s + t * nt)

ex_gcd(a0, b0) ==
    LET did_swap == b0 > a0
        a == IF did_swap THEN b0 ELSE a0
        b == IF did_swap THEN a0 ELSE b0
        all == Remainders(<<a, b>>)
        vals == SubSeq(all, 1, Len(all) - 1)
        n == Len(vals)
    IN  IF n < 3
        THEN \* vals[-3] on a list of fewer than three elements
             [kind |-> "IndexError", g |-> 0, inv |-> 0]
        ELSE LET t0 == -(vals[n - 2] \div vals[n - 1])
                 st == BackSubstitute(vals, n - 2, 1, t0)
             IN  IF did_swap
                 THEN [kind |-> "ok", g |-> vals[n], inv |-> st[2] % a]
                 ELSE [kind |-> "ok", g |-> vals[n], inv |-> st[1] % b]

-----------------------------------------------------------------------------
(* pow(a, b, N) *)

RECURSIVE PowLoop(_, _, _, _)
PowLoop(ret, a, b, N) ==
    IF b > 0
    THEN PowLoop(IF b % 2 = 1 THEN (ret * a) % N ELSE ret, (a * a) % N, b \div 2, N)
    ELSE ret

pow(a, b, N) == PowLoop(1, a, b, N)

-----------------------------------------------------------------------------
(* dual_factor(N) *)

NoFactor == <<0, 0>>    \* None

RECURSIVE TrialDivide(_, _, _)
TrialDivide(N, a, stop) ==
    IF a >= stop THEN NoFactor
    ELSE IF N % a = 0 THEN <<a, N \div a>>
    ELSE TrialDivide(N, a + 1, stop)

\* for a in range(2, int(N**(1/2) + 1))
dual_factor(N) == TrialDivide(N, 2, ISqrt(N) + 1)

-----------------------------------------------------------------------------
(* gen_prime(a, b): one pass of the while loop, for a drawn midpoint *)

WindowStart(a, midpoint) == Max(a, midpoint - WindowRadius)
WindowEnd(b, midpoint)   == Min(b, midpoint + WindowRadius)

\* Mutant of Divisors: range(2, int(end**0.5)).
DivisorsShort(end) == 2..(ISqrt(end) - 1)

\* The trial divisors: range(2, int(end**0.5 + 1))
Divisors(end) == 2..ISqrt(end)

\* Mutant of Marked: a divisor does not mark itself (only its proper multiples).
MarkedProperMultiples(sq, start, end) ==
    \E d \in 2..ISqrt(end) :
        \E sp \in start..sq : sp % d = 0 /\ (sq - sp) % d = 0 /\ sq # d

\* is_prime[sq - start] is False after the marking loops: some d and some sp of
\* the window with sp % d == 0 have sq in range(sp, end+1, d), that is
\* sp <= sq <= end and sq - sp a multiple of d.
Marked(sq, start, end) ==
    \E d \in Divisors(end) :
        \E sp \in start..sq : sp % d = 0 /\ (sq - sp) % d = 0

is_prime(start, end) == [i \in 0..(end - start) |-> ~Marked(start + i, start, end)]

\* for i in range(0, len): if is_prime[i]: return start + i
\* 0 stands for "the loop ended without returning".
RECURSIVE FirstUnmarked(_, _, _, _)
FirstUnmarked(arr, i, len, start) ==
    IF i >= len THEN 0
    ELSE IF arr[i] THEN start + i
    ELSE FirstUnmarked(arr, i + 1, len, start)

\* Mutant of SievePass: the scan starts at index 1, range(1, len).
SievePassSkipFirst(a, b, midpoint) ==
    LET start == WindowStart(a, midpoint)
        end   == WindowEnd(b, midpoint)
        len   == end - start + 1
    IN  FirstUnmarked(is_prime(start, end), 1, len, start)

SievePass(a, b, midpoint) ==
    LET start == WindowStart(a, midpoint)
        end   == WindowEnd(b, midpoint)
        len   == end - start + 1
    IN  FirstUnmarked(is_prime(start, end), 0, len, start)

\* Mutant of InvalidRange: the test the exception's message describes (b > a).
InvalidRangeStrict(a, b) == a < 2 \/ b <= a

\* if a < 2 or b < a: raise Exception(...)
InvalidRange(a, b) == a < 2 \/ b < a

-----------------------------------------------------------------------------
(* crack(N, e) *)

NoCrack == [kind |-> "none", d |-> 0]

crack(N, e0) ==
    LET f == dual_factor(N)
    IN  IF f = NoFactor
        THEN \* p, q = None
             [kind |-> "TypeError", d |-> 0]
        ELSE LET phi == (f[1] - 1) * (f[2] - 1)
                 r   == ex_gcd(e0, phi)
             IN  IF r.kind = "ok" THEN [kind |-> "ok", d |-> r.inv]
                 ELSE [kind |-> r.kind, d |-> 0]

-----------------------------------------------------------------------------
(* gen_keys(max_digits) *)

NoKey == <<0, 0, 0>>

\* max_gen = int(10**(max_digits/2))
max_gen(digits) == ISqrt(Power(10, digits))

\* Mutant of ExponentLow: e drawn like p and q, gen_prime(2, max_gen).
ExponentLowTwo(pp, qq) == 2

\* the range of the third draw: gen_prime(max(p, q), max_gen)
ExponentLow(pp, qq) == Max(pp, qq)

encrypt(msg, N, e0) == pow(msg, e0, N)
decrypt(ct, N, d0)  == pow(ct, d0, N)

-----------------------------------------------------------------------------
(* The states in which a component is not in use. *)

GcdIdle    == ga = 0 /\ gb = 0 /\ gres = NoGcd
PowIdle    == pa = 0 /\ pb = 0 /\ pN = 1 /\ pres = [done |-> FALSE, val |-> 0]
PrimeIdle  == /\ low = 0 /\ high = 0 /\ gp_pc = "idle" /\ gp_ret = 0
              /\ gp_start = 0 /\ gp_end = 0 /\ draws = 0
KeyIdle    == max_digits = 0 /\ kpc = "idle" /\ p = 0 /\ q = 0 /\ e = 0 /\ key = NoKey
CipherIdle == dpc = "idle" /\ m = 0 /\ c = 0 /\ m2 = 0 /\ cracked = NoCrack
CrackIdle  == cN = 0 /\ ce = 0 /\ cres = NoCrack

-----------------------------------------------------------------------------
(* ex_gcd applied to arguments drawn from 1..MaxGcdArg *)

InitGcd ==
    /\ ga \in 1..MaxGcdArg /\ gb \in 1..MaxGcdArg /\ gres = NoGcd
    /\ PowIdle /\ PrimeIdle /\ KeyIdle /\ CipherIdle /\ CrackIdle

CallExGcd ==
    /\ gres.kind = "none"
    /\ gres' = ex_gcd(ga, gb)
    /\ UNCHANGED <<ga, gb, powVars, primeVars, keyVars, cipherVars, crackVars>>

NextGcd == CallExGcd
SpecGcd == InitGcd /\ [][NextGcd]_vars

-----------------------------------------------------------------------------
(* pow applied to small arguments and to the arguments (4, 13, 497) *)

PowInputs ==
    ((0..MaxBase) \X (0..MaxExp) \X (1..MaxMod)) \cup {<<4, 13, 497>>}

InitPow ==
    /\ \E args \in PowInputs : pa = args[1] /\ pb = args[2] /\ pN = args[3]
    /\ pres = [done |-> FALSE, val |-> 0]
    /\ GcdIdle /\ PrimeIdle /\ KeyIdle /\ CipherIdle /\ CrackIdle

CallPow ==
    /\ ~pres.done
    /\ pres' = [done |-> TRUE, val |-> pow(pa, pb, pN)]
    /\ UNCHANGED <<pa, pb, pN, gcdVars, primeVars, keyVars, cipherVars, crackVars>>

NextPow == CallPow
SpecPow == InitPow /\ [][NextPow]_vars

-----------------------------------------------------------------------------
(* gen_prime: the range check, then one action per pass of the while loop *)

\* lines 91-92
GenPrimeCheck ==
    /\ gp_pc = "call"
    /\ gp_pc' = IF InvalidRange(low, high) THEN "error" ELSE "loop"
    /\ UNCHANGED <<low, high, gp_ret, gp_start, gp_end, draws>>

\* lines 96-111, with midpoint = random.randint(a, b)
GenPrimePass(midpoint) ==
    /\ gp_pc = "loop"
    /\ draws' = Min(draws + 1, MaxDraws)
    /\ gp_start' = WindowStart(low, midpoint)
    /\ gp_end' = WindowEnd(high, midpoint)
    /\ LET found == SievePass(low, high, midpoint)
       IN  IF found # 0
           THEN gp_pc' = "returned" /\ gp_ret' = found
           ELSE gp_pc' = "loop" /\ gp_ret' = gp_ret
    /\ UNCHANGED <<low, high>>

GenPrimeLoop == \E midpoint \in low..high : GenPrimePass(midpoint)

InitPrime ==
    /\ low \in 0..MaxLow /\ high \in 0..MaxHigh /\ gp_pc = "call" /\ gp_ret = 0
    /\ gp_start = 0 /\ gp_end = 0 /\ draws = 0
    /\ GcdIdle /\ PowIdle /\ KeyIdle /\ CipherIdle /\ CrackIdle

Others == <<gcdVars, powVars, keyVars, cipherVars, crackVars>>

PrimeCheck == GenPrimeCheck /\ UNCHANGED Others
PrimeLoop  == GenPrimeLoop /\ UNCHANGED Others

NextPrime == PrimeCheck \/ PrimeLoop
SpecPrime == InitPrime /\ [][NextPrime]_vars

\* The while loop keeps running: a pass that is possible is eventually taken.
SpecPrimeFair == SpecPrime /\ WF_vars(PrimeLoop)

-----------------------------------------------------------------------------
(* crack applied to N in 2..MaxN and e in 1..MaxE *)

InitCrack ==
    /\ cN \in 2..MaxN /\ ce \in 1..MaxE /\ cres = NoCrack
    /\ GcdIdle /\ PowIdle /\ PrimeIdle /\ KeyIdle /\ CipherIdle

CallCrack ==
    /\ cres.kind = "none"
    /\ cres' = crack(cN, ce)
    /\ UNCHANGED <<cN, ce, gcdVars, powVars, primeVars, keyVars, cipherVars>>

NextCrack == CallCrack
SpecCrack == InitCrack /\ [][NextCrack]_vars

-----------------------------------------------------------------------------
(* gen_keys: its three calls of gen_prime run the actions of gen_prime *)

\* a call gen_prime(a, b): the callee starts at its range check
CallGenPrime(a, b) ==
    /\ low' = a /\ high' = b /\ gp_pc' = "call" /\ gp_ret' = 0
    /\ gp_start' = 0 /\ gp_end' = 0 /\ draws' = 0

InitKeys ==
    /\ max_digits \in 0..MaxDigits /\ kpc = "start"
    /\ p = 0 /\ q = 0 /\ e = 0 /\ key = NoKey
    /\ GcdIdle /\ PowIdle /\ PrimeIdle /\ CipherIdle /\ CrackIdle

KeyOthers == <<gcdVars, powVars, cipherVars, crackVars>>

\* line 131: p = gen_prime(2, max_gen)
KeysCallP ==
    /\ kpc = "start"
    /\ kpc' = "p"
    /\ CallGenPrime(2, max_gen(max_digits))
    /\ UNCHANGED <<max_digits, p, q, e, key, KeyOthers>>

\* line 132: q = gen_prime(2, max_gen)
KeysCallQ ==
    /\ kpc = "p" /\ gp_pc = "returned"
    /\ p' = gp_ret
    /\ kpc' = "q"
    /\ CallGenPrime(2, max_gen(max_digits))
    /\ UNCHANGED <<max_digits, q, e, key, KeyOthers>>

\* line 137: e = gen_prime(max(p, q), max_gen)
KeysCallE ==
    /\ kpc = "q" /\ gp_pc = "returned"
    /\ q' = gp_ret
    /\ kpc' = "e"
    /\ CallGenPrime(ExponentLow(p, gp_ret), max_gen(max_digits))
    /\ UNCHANGED <<max_digits, p, e, key, KeyOthers>>

\* lines 134-148: N, phi, d = ex_gcd(e, phi, True)[1], return (N, e, d)
KeysReturn ==
    /\ kpc = "e" /\ gp_pc = "returned"
    /\ e' = gp_ret
    /\ LET N   == p * q
           phi == (p - 1) * (q - 1)
           r   == ex_gcd(gp_ret, phi)
       IN  IF r.kind = "ok"
           THEN kpc' = "done" /\ key' = <<N, gp_ret, r.inv>>
           ELSE kpc' = r.kind /\ key' = key
    /\ UNCHANGED <<max_digits, p, q, primeVars, KeyOthers>>

\* the exception of a call of gen_prime leaves gen_keys
KeysRaise ==
    /\ kpc \in {"p", "q", "e"} /\ gp_pc = "error"
    /\ kpc' = "InvalidRange"
    /\ UNCHANGED <<max_digits, p, q, e, key, primeVars, KeyOthers>>

KeysCheck == GenPrimeCheck /\ UNCHANGED <<keyVars, KeyOthers>>
KeysLoop  == GenPrimeLoop /\ UNCHANGED <<keyVars, KeyOthers>>

NextKeys ==
    \/ KeysCallP \/ KeysCheck \/ KeysLoop \/ KeysCallQ \/ KeysCallE
    \/ KeysReturn \/ KeysRaise
SpecKeys == InitKeys /\ [][NextKeys]_vars

-----------------------------------------------------------------------------
(* The driver: gen_keys, encrypt, decrypt, crack *)

DriverOthers == <<gcdVars, powVars, primeVars, keyVars, crackVars>>

\* line 192: c = encrypt(m, N, e)
Encrypt(msg) ==
    /\ kpc = "done" /\ dpc = "idle"
    /\ m' = msg
    /\ c' = encrypt(msg, key[1], key[2])
    /\ dpc' = "encrypted"
    /\ UNCHANGED <<m2, cracked, DriverOthers>>

\* line 195: m2 = decrypt(c, N, d)
Decrypt ==
    /\ dpc = "encrypted"
    /\ m2' = decrypt(c, key[1], key[3])
    /\ dpc' = "decrypted"
    /\ UNCHANGED <<m, c, cracked, DriverOthers>>

\* line 198: d = crack(N, e)
DriverCrack ==
    /\ dpc = "decrypted"
    /\ cracked' = crack(key[1], key[2])
    /\ dpc' = "cracked"
    /\ UNCHANGED <<m, c, m2, DriverOthers>>

\* lines 189-192: m = 12345, then encrypt; encrypt takes any message, below N
\* or not, and is applied to the small messages 0..MaxMsg as well.
Messages == (0..MaxMsg) \cup {DriverMessage}

DriverEncrypt == \E msg \in Messages : Encrypt(msg)

NextDriver == NextKeys \/ DriverEncrypt \/ Decrypt \/ DriverCrack
SpecDriver == InitKeys /\ [][NextDriver]_vars

-----------------------------------------------------------------------------
(* Properties *)

HasPrime(a, b) == \E n \in a..b : IsPrime(n)

\* C1: for coprime a >= 1 and b >= 1, ex_gcd(a, b) returns (g, inverse) with
\* g = 1 and (a * inverse) mod b = 1, a and b being the arguments as passed;
\* ex_gcd(3, 11) = (1, 4).
C1_InverseOfCoprime ==
    (gres.kind # "none" /\ Gcd(ga, gb) = 1) =>
        /\ gres.kind = "ok"
        /\ gres.g = 1
        /\ (ga * gres.inv) % gb = 1
        /\ (ga = 3 /\ gb = 11) => gres.inv = 4

\* The same for arguments from 2 on, where ex_gcd does return.
ExGcdInverseFromTwo ==
    (gres.kind # "none" /\ Gcd(ga, gb) = 1 /\ ga >= 2 /\ gb >= 2) =>
        /\ gres.kind = "ok"
        /\ gres.g = 1
        /\ (ga * gres.inv) % gb = 1
        /\ (ga = 3 /\ gb = 11) => gres.inv = 4

\* C2: for base >= 0, exponent >= 0 and modulus >= 1, pow(base, exponent,
\* modulus) is base^exponent mod modulus, a value of 0..modulus-1 (so 1 mod
\* modulus for exponent 0); pow(4, 13, 497) = 445.
C2_PowIsModularPower ==
    pres.done =>
        /\ pres.val = Power(pa, pb) % pN
        /\ pres.val \in 0..(pN - 1)
        /\ (pa = 4 /\ pb = 13 /\ pN = 497) => pres.val = 445

\* The same for exponent >= 1 or modulus >= 2.
PowIsModularPowerElsewhere ==
    (pres.done /\ (pb >= 1 \/ pN >= 2)) =>
        /\ pres.val = Power(pa, pb) % pN
        /\ (pa = 4 /\ pb = 13 /\ pN = 497) => pres.val = 445

\* C3: for every key (N, e, d) gen_keys returns and every message m with
\* 0 <= m < N, decrypt(encrypt(m, N, e), N, d) = m.
C3_RoundTrip ==
    (dpc \in {"decrypted", "cracked"} /\ m < key[1]) => m2 = m

\* The round trip for keys drawn with p # q; for any key, a message >= N
\* comes back reduced below N, hence changed.
RoundTripDistinctPrimes ==
    (dpc \in {"decrypted", "cracked"} /\ m < key[1] /\ p # q) => m2 = m
MessageAboveModulusChanged ==
    (dpc \in {"decrypted", "cracked"} /\ m >= key[1]) => (m2 < key[1] /\ m2 # m)

\* C4: a value gen_prime(low, high) returns lies in low..high and is prime, and
\* no composite number of a sieved window is left unmarked.
C4_ReturnsPrimeInRange ==
    /\ gp_pc = "returned" =>
           low <= gp_ret /\ gp_ret <= high /\ IsPrime(gp_ret)
    /\ draws > 0 =>
           \A n \in gp_start..gp_end :
               ~IsPrime(n) => Marked(n, gp_start, gp_end)

C4_Witness ==
    gp_pc = "returned" /\ gp_start > low /\ gp_end < high /\ gp_ret > gp_start

\* C5: for max_digits >= 4 and whatever midpoints are drawn, gen_keys raises
\* nothing and returns (N, e, d) with N = p*q and (e*d) mod (p-1)*(q-1) = 1
\* for the primes p, q it drew, also when p = q.
C5_KeyEquation ==
    max_digits >= 4 =>
        /\ kpc \notin {"InvalidRange", "IndexError"}
        /\ kpc = "done" =>
               /\ IsPrime(p) /\ IsPrime(q)
               /\ key[1] = p * q
               /\ key[2] = e
               /\ (key[2] * key[3]) % ((p - 1) * (q - 1)) = 1

C5_Witness ==
    kpc = "done" /\ max_digits >= 4 /\ p = q /\ e = p

\* C6: for N = p*q with p # q prime and gcd(e, (p-1)*(q-1)) = 1, crack(N, e)
\* returns the d of key generation, ex_gcd(e, (p-1)*(q-1))[1], whichever of
\* p, q is the larger.
C6_CrackRecoversD ==
    cres.kind # "none" =>
        \A x, y \in 2..cN :
            ( /\ IsPrime(x) /\ IsPrime(y) /\ x # y /\ x * y = cN
              /\ Gcd(ce, (x - 1) * (y - 1)) = 1 ) =>
                /\ cres.kind = "ok"
                /\ cres.d = ex_gcd(ce, (x - 1) * (y - 1)).inv

\* The same for e >= 2, and for the key the driver generated.
CrackRecoversDFromTwo ==
    (cres.kind # "none" /\ ce >= 2) =>
        \A x, y \in 2..cN :
            ( /\ IsPrime(x) /\ IsPrime(y) /\ x # y /\ x * y = cN
              /\ Gcd(ce, (x - 1) * (y - 1)) = 1 ) =>
                /\ cres.kind = "ok"
                /\ cres.d = ex_gcd(ce, (x - 1) * (y - 1)).inv
                /\ (ce * cres.d) % ((x - 1) * (y - 1)) = 1
DriverCrackAgrees ==
    dpc = "cracked" => cracked = [kind |-> "ok", d |-> key[3]]

\* C7: when N is prime, so that dual_factor(N) is None, crack(N, e) ends in the
\* explicit FactorizationFailed outcome, not in the failure of unpacking None.
C7_FactorizationFailed ==
    (cres.kind # "none" /\ IsPrime(cN)) => cres.kind = "FactorizationFailed"

\* C8: gen_prime(low, high) raises the invalid-range exception exactly when
\* low < 2 or high < low, and does so before it draws a midpoint; (1, 10) is
\* refused and low = high >= 2 is accepted.
C8_InvalidRange ==
    gp_pc \in {"error", "loop", "returned"} =>
        /\ (gp_pc = "error") <=> (low < 2 \/ high < low)
        /\ gp_pc = "error" => draws = 0 /\ gp_ret = 0
        /\ (low = 1 /\ high = 10) => gp_pc = "error"
        /\ (low = high /\ low >= 2) => gp_pc # "error"

C8_Witness ==
    gp_pc = "error" /\ low = 1 /\ high = 10 /\ draws = 0

\* C9: on a valid range, gen_prime eventually returns if the range holds a
\* prime, and never returns (every pass retries) if it holds none.
C9_ReturnsIffPrime ==
    /\ (gp_pc = "loop" /\ HasPrime(low, high)) ~> (gp_pc = "returned")
    /\ [][(gp_pc = "loop" /\ ~HasPrime(low, high)) => gp_pc' = "loop"]_vars

C9_Witness ==
    gp_pc = "loop" /\ draws >= 2 /\ low >= 2 /\ high > low /\ ~HasPrime(low, high)

\* C10: in a pass over the window start..end, every window element equal to a
\* trial divisor (2..floor(sqrt(end))) is marked, prime or not; the value
\* returned is the smallest prime of the window above floor(sqrt(end)), and
\* gen_prime(2, high) with high >= 4 does not return 2.
C10_SmallPrimesMarked ==
    draws > 0 =>
        /\ \A n \in gp_start..gp_end :
               n \in 2..ISqrt(gp_end) => ~is_prime(gp_start, gp_end)[n - gp_start]
        /\ gp_pc = "returned" =>
               /\ gp_ret \in gp_start..gp_end
               /\ IsPrime(gp_ret) /\ gp_ret > ISqrt(gp_end)
               /\ \A n \in gp_start..(gp_ret - 1) :
                      ~(IsPrime(n) /\ n > ISqrt(gp_end))
        /\ (gp_pc = "returned" /\ low = 2 /\ high >= 4) => gp_ret # 2

C10_Witness ==
    gp_pc = "returned" /\ gp_start = 2 /\ gp_end = 52 /\ gp_ret = 11

====
